---- MODULE Spec2Model ----
(***************************************************************************)
(* Model of the JobAI python service: the Fit Scorer (services/ai_matcher) *)
(* and the Job Aggregator (services/job_scraper) together with their       *)
(* request handlers (main.py).                                             *)
(*                                                                         *)
(* Python strings are sequences of one-character strings, so that strip,   *)
(* split, lower, title, slicing and the "in" test are computed as Python   *)
(* computes them; a fixed text of the code that no operation looks into is *)
(* kept as one piece.  A Python dict is a TLA+ record; d['k'] raises       *)
(* KeyError exactly when "k" is not in DOMAIN d.  A call that raises       *)
(* yields Raised.                                                          *)
(***************************************************************************)
EXTENDS Integers, Sequences, FiniteSets, TLC

VARIABLES
    \* ---- AIMatcher (constructed once, main.py:50) ----
    openai_client,     \* TRUE iff OPENAI_API_KEY was set at construction
    claude_client,     \* TRUE iff ANTHROPIC_API_KEY was set at construction
    \* ---- one score_jobs request in flight ----
    spc,               \* position of the score_jobs handler / coroutine
    sreq,              \* the ScoreJobsRequest
    resume_content,    \* result of _extract_resume_content
    scored_jobs,       \* the local list scored_jobs of AIMatcher.score_jobs
    bi,                \* the loop variable i of AIMatcher.score_jobs
    slog,              \* what happened so far: batches submitted, pauses
    sresult,           \* what AIMatcher.score_jobs returned or raised
    sresponse,         \* what the score_jobs endpoint answered
    \* ---- JobScraper (constructed once, main.py:49) ----
    jsearch_api_key,   \* TRUE iff JSEARCH_API_KEY was set at construction
    \* ---- one scrape_jobs request in flight ----
    jpc,               \* position of the scrape_jobs handler / coroutine
    jreq,              \* keyword, location, limit as the endpoint got them
    jargs,             \* keyword, location, limit as handed to the core
    all_jobs,          \* the local list all_jobs of JobScraper.scrape_jobs
    jlog,              \* what happened so far: sources queried, faults
    jresult,           \* what JobScraper.scrape_jobs returned or raised
    jresponse,         \* what the scrape_jobs endpoint answered
    \* ---- two invocations in flight on the same two instances ----
    session,           \* cookie jar of JobScraper.session (job_scraper.py:32)
    cpc,               \* per invocation: position of its coroutine
    cargs,             \* per invocation: the operation and its arguments
    cloc,              \* per invocation: the locals of its coroutine
    cext,              \* per invocation: the external responses it got
    csent,             \* per invocation: cookies its Indeed request carried
    cres               \* per invocation: what it returned

svars == <<openai_client, claude_client, spc, sreq, resume_content,
           scored_jobs, bi, slog, sresult, sresponse>>
jvars == <<jsearch_api_key, jpc, jreq, jargs, all_jobs, jlog, jresult,
           jresponse>>
cvars == <<session, cpc, cargs, cloc, cext, csent, cres>>
vars == <<svars, jvars, cvars>>

-----------------------------------------------------------------------------
(* Bounds of the model *)

\* longest job list of a score_jobs request
MaxJobs == 6
\* number of distinct pseudo-random streams the mock job generator may draw
MaxSeed == 2

-----------------------------------------------------------------------------
(* Generic helpers *)

Min(a, b) == IF a <= b THEN a ELSE b
Max(a, b) == IF a >= b THEN a ELSE b

\* the value of a call that raised an exception
Raised == [kind |-> "raise"]
Returned(v) == [kind |-> "list", val |-> v]
\* Python None
None == <<"None">>

\* seq[:n] of Python, also for negative n
Slice(seq, n) ==
    IF n >= 0 THEN SubSeq(seq, 1, Min(n, Len(seq)))
    ELSE SubSeq(seq, 1, Max(0, Len(seq) + n))

-----------------------------------------------------------------------------
(* Python str operations on sequences of characters *)

Whitespace == {" ", "\n", "\t", "\r"}
Digits == <<"0", "1", "2", "3", "4", "5", "6", "7", "8", "9">>
DigitSet == {Digits[i] : i \in 1..10}
DigitValue(c) == (CHOOSE i \in 1..10 : Digits[i] = c) - 1

LowerPairs == {<<"A", "a">>, <<"B", "b">>, <<"C", "c">>, <<"D", "d">>,
               <<"E", "e">>}
IsUpper(c) == \E p \in LowerPairs : p[1] = c
IsLower(c) == \E p \in LowerPairs : p[2] = c
IsCased(c) == IsUpper(c) \/ IsLower(c)
LowerChar(c) == IF IsUpper(c) THEN (CHOOSE p \in LowerPairs : p[1] = c)[2] ELSE c
UpperChar(c) == IF IsLower(c) THEN (CHOOSE p \in LowerPairs : p[2] = c)[1] ELSE c

\* str.lower()
StrLower(s) == [i \in 1..Len(s) |-> LowerChar(s[i])]

\* str.title(): a cased character is upper-cased when it follows an uncased
\* one (or starts the string) and lower-cased otherwise
StrTitle(s) ==
    [i \in 1..Len(s) |->
        IF i = 1 \/ ~IsCased(s[i - 1]) THEN UpperChar(s[i]) ELSE LowerChar(s[i])]

\* str.strip()
Strip(s) ==
    IF \A i \in 1..Len(s) : s[i] \in Whitespace THEN <<>>
    ELSE LET lo == CHOOSE i \in 1..Len(s) :
                      s[i] \notin Whitespace
                      /\ \A j \in 1..(i - 1) : s[j] \in Whitespace
             hi == CHOOSE i \in 1..Len(s) :
                      s[i] \notin Whitespace
                      /\ \A j \in (i + 1)..Len(s) : s[j] \in Whitespace
         IN  SubSeq(s, lo, hi)

\* the places where sub occurs in s
Occurrences(s, sub) ==
    {i \in 1..(Len(s) - Len(sub) + 1) : SubSeq(s, i, i + Len(sub) - 1) = sub}

\* sub in s
Contains(s, sub) == Occurrences(s, sub) # {}

\* s.find(sub) + 1, 0 when absent
Find(s, sub) ==
    IF Occurrences(s, sub) = {} THEN 0
    ELSE CHOOSE i \in Occurrences(s, sub) : \A j \in Occurrences(s, sub) : i <= j

\* s.split(sep): every piece between non-overlapping occurrences, left to right
RECURSIVE Split(_, _)
Split(s, sep) ==
    LET p == Find(s, sep)
    IN  IF p = 0 THEN <<s>>
        ELSE <<SubSeq(s, 1, p - 1)>> \o Split(SubSeq(s, p + Len(sep), Len(s)), sep)

\* str(n) for n >= 0
RECURSIVE DecStr(_)
DecStr(n) ==
    IF n < 10 THEN <<Digits[n + 1]>>
    ELSE DecStr(n \div 10) \o <<Digits[(n % 10) + 1]>>

\* whether int(s) succeeds: surrounding whitespace, an optional sign, digits
IsIntLiteral(s) ==
    LET t == Strip(s)
        d == IF t # <<>> /\ t[1] \in {"+", "-"} THEN Tail(t) ELSE t
    IN  d # <<>> /\ \A i \in 1..Len(d) : d[i] \in DigitSet

RECURSIVE DigitsValue(_)
DigitsValue(d) ==
    IF d = <<>> THEN 0
    ELSE 10 * DigitsValue(SubSeq(d, 1, Len(d) - 1)) + DigitValue(d[Len(d)])

\* int(s), for an s with IsIntLiteral(s)
IntValue(s) ==
    LET t == Strip(s)
    IN  IF t[1] = "-" THEN 0 - DigitsValue(Tail(t))
        ELSE IF t[1] = "+" THEN DigitsValue(Tail(t))
        ELSE DigitsValue(t)

-----------------------------------------------------------------------------
(* Fit Scorer: services/ai_matcher.py *)

\* batch_size of AIMatcher.score_jobs
BatchSize == 5
\* the description[:500] of the prompt
PromptDescLimit == 500
\* the default score of _parse_ai_scores
DefaultScore == 50
DefaultExplanation == <<"AI analysis completed">>
MockExplanation ==
    <<"Mock AI analysis: Good match based on job requirements and candidate profile.">>
ResumeExtracted ==
    <<"Resume content extracted successfully. Skills and experience available for matching.">>
ResumeUnavailable == <<"Resume content not available for analysis.">>

HasKey(d, k) == k \in DOMAIN d
\* d.get(k), d.get(k, default)
Get(d, k, default) == IF HasKey(d, k) THEN d[k] ELSE default

\* the keys read with job['...'] when a ScoredJob or a prompt entry is built
RequiredKeys == {"title", "company", "description"}
WellFormed(job) == \A k \in RequiredKeys : HasKey(job, k)

\* ScoredJob(title=job['title'], ..., fit_score=score, score_explanation=...)
ScoredJob(job, score, explanation) ==
    [title |-> job.title,
     company |-> job.company,
     description |-> job.description,
     location |-> Get(job, "location", None),
     source_url |-> Get(job, "source_url", None),
     fit_score |-> score,
     score_explanation |-> explanation]

\* mock_score of _generate_mock_scores for the 0-based position i
MockScore(i) == Max(40, Min(95, (85 - (i * 3)) + (i % 3) * 5))

\* AIMatcher._generate_mock_scores: job['title'] raises KeyError on a
\* dictionary without that key, and nothing in the function catches it
GenerateMockScores(jobs) ==
    IF \E k \in 1..Len(jobs) : ~WellFormed(jobs[k]) THEN Raised
    ELSE Returned([k \in 1..Len(jobs) |->
                     ScoredJob(jobs[k], MockScore(k - 1), MockExplanation)])

\* ", ".join(parts)
RECURSIVE Join(_, _)
Join(parts, sep) ==
    IF parts = <<>> THEN <<>>
    ELSE IF Len(parts) = 1 THEN parts[1]
    ELSE parts[1] \o sep \o Join(Tail(parts), sep)

\* AIMatcher._create_scoring_prompt: the profile and the numbered jobs
CreateScoringPrompt(user_profile, jobs) ==
    IF \E k \in 1..Len(jobs) : ~WellFormed(jobs[k]) THEN Raised
    ELSE [kind |-> "prompt",
          skills |-> IF user_profile.skills # <<>>
                     THEN Join(user_profile.skills, <<",", " ">>)
                     ELSE <<"Not specified">>,
          experience |-> user_profile.experience,
          resume |-> user_profile.resume_content,
          jobs |-> [k \in 1..Len(jobs) |->
                      [n |-> k,
                       title |-> jobs[k].title,
                       company |-> jobs[k].company,
                       description |-> Slice(jobs[k].description, PromptDescLimit),
                       location |-> Get(jobs[k], "location", <<"Not specified">>)]]]

\* f"Job {n}:"
JobTag(n) == <<"J", "o", "b", " ">> \o DecStr(n) \o <<":">>
Separator == <<" ", "-", " ">>

\* score = max(0, min(100, score))
ClampScoreLow(score) == Min(100, score)
ClampScore(score) == Max(0, Min(100, score))

\* the inner loop of _parse_ai_scores for the job numbered n: the first line
\* holding "Job n:" decides, whatever follows it
ParseJobLine(lines, n) ==
    LET hits == {k \in 1..Len(lines) : Contains(lines[k], JobTag(n))}
        dflt == [score |-> DefaultScore, explanation |-> DefaultExplanation]
    IN  IF hits = {} THEN dflt
        ELSE LET line == lines[CHOOSE k \in hits : \A j \in hits : k <= j]
                 parts == Split(line, Separator)
             IN  IF Len(parts) < 2 THEN dflt
                 ELSE LET head == Split(parts[1], <<":">>)
                      IN  IF Len(head) < 2 THEN dflt
                          ELSE IF ~IsIntLiteral(Strip(head[2])) THEN dflt
                          ELSE [score |-> IntValue(Strip(head[2])),
                                explanation |-> Strip(parts[2])]

\* AIMatcher._parse_ai_scores: None.strip() and job['title'] raise inside the
\* try, whose handler answers with the mock scores
ParseAIScores(jobs, ai_response) ==
    IF ai_response = None THEN GenerateMockScores(jobs)
    ELSE IF \E k \in 1..Len(jobs) : ~WellFormed(jobs[k])
    THEN GenerateMockScores(jobs)
    ELSE LET lines == Split(Strip(ai_response), <<"\n">>)
         IN  Returned([k \in 1..Len(jobs) |->
                 LET p == ParseJobLine(lines, k)
                 IN  ScoredJob(jobs[k], ClampScore(p.score), p.explanation)])

\* AIMatcher._score_with_openai: prompt, call, parse, all inside one try
ScoreWithOpenai(user_profile, jobs, outcome) ==
    IF CreateScoringPrompt(user_profile, jobs).kind = "raise"
    THEN GenerateMockScores(jobs)
    ELSE IF outcome.kind = "exception" THEN GenerateMockScores(jobs)
    ELSE ParseAIScores(jobs, outcome.text)

\* AIMatcher._score_with_claude
ScoreWithClaude(user_profile, jobs, outcome) ==
    IF CreateScoringPrompt(user_profile, jobs).kind = "raise"
    THEN GenerateMockScores(jobs)
    ELSE IF outcome.kind = "exception" THEN GenerateMockScores(jobs)
    ELSE ParseAIScores(jobs, outcome.text)

\* the provider _score_job_batch selects
SelectedProvider(openai, claude) ==
    IF openai THEN "openai" ELSE IF claude THEN "claude" ELSE "none"

\* AIMatcher._score_job_batch
ScoreJobBatch(openai, claude, user_profile, jobs, outcome) ==
    LET r == IF openai THEN ScoreWithOpenai(user_profile, jobs, outcome)
             ELSE IF claude THEN ScoreWithClaude(user_profile, jobs, outcome)
             ELSE GenerateMockScores(jobs)
    IN  IF r.kind = "raise" THEN GenerateMockScores(jobs) ELSE r

\* the providers whose API one call of _score_job_batch requests, in order:
\* the first configured one, unless building its prompt already raised; the
\* except branch goes to the mock scores, not to the other provider
ProviderCallsRetry(openai, claude, user_profile, jobs, outcome) ==
    IF CreateScoringPrompt(user_profile, jobs).kind = "raise" THEN <<>>
    ELSE IF openai
    THEN IF claude /\ outcome.kind = "exception" THEN <<"openai", "claude">>
                                                 ELSE <<"openai">>
    ELSE IF claude THEN <<"claude">> ELSE <<>>
ProviderCalls(openai, claude, user_profile, jobs, outcome) ==
    IF openai
    THEN IF CreateScoringPrompt(user_profile, jobs).kind = "raise"
         THEN <<>> ELSE <<"openai">>
    ELSE IF claude
    THEN IF CreateScoringPrompt(user_profile, jobs).kind = "raise"
         THEN <<>> ELSE <<"claude">>
    ELSE <<>>

\* the except branch of AIMatcher.score_jobs
ScoreJobsExcept(jobs) == GenerateMockScores(jobs)

-----------------------------------------------------------------------------
(* The score_jobs endpoint: main.py *)

\* the insertion point list.sort(key=fit_score, reverse=True) gives x among
\* the already sorted records: behind every record scoring at least as high,
\* so that equal scores keep their order (the sort is stable)
InsertUnstable(sorted, x) ==
    LET k == Cardinality({j \in 1..Len(sorted) : sorted[j].fit_score > x.fit_score})
    IN  SubSeq(sorted, 1, k) \o <<x>> \o SubSeq(sorted, k + 1, Len(sorted))
InsertByScore(sorted, x) ==
    LET k == Cardinality({j \in 1..Len(sorted) : sorted[j].fit_score >= x.fit_score})
    IN  SubSeq(sorted, 1, k) \o <<x>> \o SubSeq(sorted, k + 1, Len(sorted))

\* scored_jobs.sort(key=lambda job: job.fit_score, reverse=True)
RECURSIVE SortByFitScore(_)
SortByFitScore(seq) ==
    IF seq = <<>> THEN <<>>
    ELSE InsertByScore(SortByFitScore(SubSeq(seq, 1, Len(seq) - 1)), seq[Len(seq)])

RECURSIVE SumScores(_)
SumScores(seq) ==
    IF seq = <<>> THEN 0 ELSE seq[1].fit_score + SumScores(Tail(seq))

\* sum(job.fit_score for job in scored_jobs) / len(scored_jobs) if scored_jobs
\* else 0: the quotient is kept exact, as numerator and denominator
AverageScoreFloor(seq) ==
    IF seq # <<>> THEN [num |-> SumScores(seq) \div Len(seq), den |-> 1]
    ELSE [num |-> 0, den |-> 1]
AverageScore(seq) ==
    IF seq # <<>> THEN [num |-> SumScores(seq), den |-> Len(seq)]
    ELSE [num |-> 0, den |-> 1]

\* the answer of the endpoint once ai_matcher.score_jobs came back
ScoreJobsResponse(result) ==
    IF result.kind = "raise"
    THEN [status |-> 500, detail |-> "Job scoring failed: KeyError"]
    ELSE LET sorted == SortByFitScore(result.val)
         IN  [status |-> 200,
              scored_jobs |-> sorted,
              count |-> Len(sorted),
              average_score |-> AverageScore(sorted)]

-----------------------------------------------------------------------------
(* Inputs of the Fit Scorer *)

\* the k-th job of a request; every second one carries no location
JobAt(k) ==
    IF k % 2 = 0
    THEN [title |-> <<"T">> \o DecStr(k), company |-> <<"C">>,
          description |-> <<"d">>, source_url |-> <<"u">> \o DecStr(k)]
    ELSE [title |-> <<"T">> \o DecStr(k), company |-> <<"C">>,
          description |-> <<"d">>, location |-> <<"L">>,
          source_url |-> <<"u">> \o DecStr(k)]

\* a dictionary the request model accepts (Dict[str, Any]) without a title
JobWithoutTitle(k) ==
    [company |-> <<"C">>, description |-> <<"d">>,
     source_url |-> <<"u">> \o DecStr(k)]

\* n jobs, the one at position bad (if any) without a title
JobList(n, bad) == [k \in 1..n |-> IF k = bad THEN JobWithoutTitle(k) ELSE JobAt(k)]

ScoreLine(n, score, rest) == JobTag(n) \o <<" ">> \o score \o rest

\* texts a provider may answer with
Responses ==
    { \* two well-formed lines, the second score above 100
      ScoreLine(1, <<"7", "7">>, Separator \o <<"o", "k">>) \o <<"\n">>
        \o ScoreLine(2, <<"1", "5", "0">>, Separator \o <<"h", "i">>),
      \* a negative score, a line without separator, equal scores
      ScoreLine(1, <<"-", "5">>, Separator \o <<"n", "o">>) \o <<"\n">>
        \o ScoreLine(2, <<"7", "7">>, <<>>) \o <<"\n">>
        \o ScoreLine(3, <<"6", "0">>, Separator \o <<"a">>) \o <<"\n">>
        \o ScoreLine(4, <<"6", "0">>, Separator \o <<"b">>),
      \* a score that is no integer
      ScoreLine(1, <<"x">>, Separator \o <<"o", "k">>),
      \* an explanation that holds the separator itself
      <<" ">> \o ScoreLine(1, <<"7", "7">>,
                           Separator \o <<"a">> \o Separator \o <<"b">>) \o <<"\n">>,
      \* a line that mentions another job before that job's own line
      ScoreLine(1, <<"8", "0">>, Separator \o <<"n", "o", "t", " ">> \o JobTag(2))
        \o <<"\n">> \o ScoreLine(2, <<"6", "0">>, Separator \o <<"o", "k">>),
      \* nothing
      <<>> }

\* what a provider call may end in: an exception, no content, a text
ProviderOutcomes ==
    {[kind |-> "exception"], [kind |-> "text", text |-> None]}
        \cup {[kind |-> "text", text |-> r] : r \in Responses}
NoCall == [kind |-> "nocall"]

ScoreRequests ==
    {[resume_url |-> u, jobs |-> JobList(n, bad), user_skills |-> sk,
      user_experience |-> <<"3", "y">>] :
        u \in {<<>>, <<"r">>},
        n \in 0..MaxJobs,
        bad \in {0, 2, MaxJobs},
        sk \in {None, <<<<"G", "o">>, <<"C">>>>}}

-----------------------------------------------------------------------------
(* The score_jobs request: main.score_jobs and AIMatcher.score_jobs *)

\* user_profile of AIMatcher.score_jobs
UserProfile ==
    [resume_content |-> resume_content,
     skills |-> IF sreq.user_skills = None THEN <<>> ELSE sreq.user_skills,
     experience |-> sreq.user_experience]

\* main.score_jobs up to the call of the scorer: the two checks raise an
\* HTTPException(400) inside the handler's try, whose "except Exception"
\* answers every exception with status 500
ScoreJobsEndpoint ==
    /\ spc = "idle"
    /\ \E r \in ScoreRequests :
        /\ sreq' = r
        /\ IF r.jobs = <<>>
           THEN /\ sresponse' = [status |-> 500,
                                 detail |-> "Job scoring failed: 400: Jobs list is required"]
                /\ spc' = "done"
           ELSE IF r.resume_url = <<>>
           THEN /\ sresponse' = [status |-> 500,
                                 detail |-> "Job scoring failed: 400: Resume URL is required"]
                /\ spc' = "done"
           ELSE /\ spc' = "resume"
                /\ UNCHANGED sresponse
    /\ UNCHANGED <<openai_client, claude_client, resume_content, scored_jobs,
                   bi, slog, sresult, jvars, cvars>>

\* AIMatcher._extract_resume_content and the start of the batch loop
ExtractResumeContent ==
    /\ spc = "resume"
    /\ \E fetched \in BOOLEAN :
        resume_content' = IF fetched THEN ResumeExtracted ELSE ResumeUnavailable
    /\ scored_jobs' = <<>>
    /\ bi' = 0
    /\ spc' = "batch"
    /\ UNCHANGED <<openai_client, claude_client, sreq, slog, sresult,
                   sresponse, jvars, cvars>>

\* one turn of the loop of AIMatcher.score_jobs: jobs[i:i+5] is scored and
\* appended; an exception leaves the loop for the except branch
ScoreBatchStep ==
    /\ spc = "batch"
    /\ LET jobs == sreq.jobs
           batch == SubSeq(jobs, bi + 1, Min(bi + BatchSize, Len(jobs)))
           provider == SelectedProvider(openai_client, claude_client)
           called == provider # "none"
                     /\ CreateScoringPrompt(UserProfile, batch).kind # "raise"
       IN  \E outcome \in IF called THEN ProviderOutcomes ELSE {NoCall} :
             LET r == ScoreJobBatch(openai_client, claude_client, UserProfile,
                                    batch, outcome)
             IN  /\ slog' = Append(slog, [ev |-> "batch", from |-> bi,
                                          size |-> Len(batch),
                                          provider |-> provider,
                                          called |-> called,
                                          calls |-> ProviderCalls(
                                              openai_client, claude_client,
                                              UserProfile, batch, outcome),
                                          outcome |-> outcome, result |-> r])
                 /\ IF r.kind = "raise"
                    THEN /\ sresult' = ScoreJobsExcept(jobs)
                         /\ spc' = "returned"
                         /\ UNCHANGED scored_jobs
                    ELSE /\ scored_jobs' = scored_jobs \o r.val
                         /\ IF bi + BatchSize < Len(jobs)
                            THEN /\ spc' = "sleep"
                                 /\ UNCHANGED sresult
                            ELSE /\ spc' = "returned"
                                 /\ sresult' = Returned(scored_jobs')
    /\ UNCHANGED <<openai_client, claude_client, sreq, resume_content, bi,
                   sresponse, jvars, cvars>>

\* await asyncio.sleep(1) between two batches, then the next turn of the loop
SleepBetweenBatches ==
    /\ spc = "sleep"
    /\ slog' = Append(slog, [ev |-> "sleep"])
    /\ bi' = bi + BatchSize
    /\ spc' = "batch"
    /\ UNCHANGED <<openai_client, claude_client, sreq, resume_content,
                   scored_jobs, sresult, sresponse, jvars, cvars>>

\* main.score_jobs after the scorer came back: sort, mean, answer
ScoreJobsRespond ==
    /\ spc = "returned"
    /\ sresponse' = ScoreJobsResponse(sresult)
    /\ spc' = "done"
    /\ UNCHANGED <<openai_client, claude_client, sreq, resume_content,
                   scored_jobs, bi, slog, sresult, jvars, cvars>>

NextScore ==
    \/ ScoreJobsEndpoint
    \/ ExtractResumeContent
    \/ ScoreBatchStep
    \/ SleepBetweenBatches
    \/ ScoreJobsRespond

NoRequest == [kind |-> "none"]

InitScore ==
    /\ openai_client \in BOOLEAN
    /\ claude_client \in BOOLEAN
    /\ spc = "idle"
    /\ sreq = NoRequest
    /\ resume_content = <<>>
    /\ scored_jobs = <<>>
    /\ bi = 0
    /\ slog = <<>>
    /\ sresult = NoRequest
    /\ sresponse = NoRequest

-----------------------------------------------------------------------------
(* Job Aggregator: services/job_scraper.py *)

\* description[:1000] of both record parsers
DescLimit == 1000
\* min(limit, 15) of _get_mock_jobs
MockCap == 15
\* min(limit, 50) of the scrape_jobs endpoint
LimitCap == 50

\* len() of a string: a piece of several characters stands for a fixed text
\* that no operation of the code splits
RECURSIVE CharLen(_)
CharLen(s) ==
    IF s = <<>> THEN 0
    ELSE IF Len(s) = 1 THEN Len(s[1])
    ELSE LET half == Len(s) \div 2
         IN  CharLen(SubSeq(s, 1, half)) + CharLen(SubSeq(s, half + 1, Len(s)))

SynthDescription(company, title) ==
    <<"J", "o", "b", " ", "o", "p", "p", "o", "r", "t", "u", "n", "i", "t", "y", " ",
      "a", "t", " ">>
      \o company \o <<" ", "f", "o", "r", " ">> \o title
      \o <<" ", "p", "o", "s", "i", "t", "i", "o", "n", ".">>

\* the None a record parser returns instead of a job dictionary
NoJob == [none |-> TRUE]
\* "if job:" on what a record parser returned
IsJob(j) == HasKey(j, "title")

\* Python truth of a string or None
Truthy(v) == v # None /\ v # <<>>

\* JobScraper._parse_jsearch_job: None for an entry without title or company,
\* and for one whose text fields are no strings (.strip() raises, caught)
ParseJSearchJob(job_data) ==
    LET t == Get(job_data, "job_title", <<>>)
        c == Get(job_data, "employer_name", <<>>)
        d == Get(job_data, "job_description", <<>>)
        parts == SelectSeq(<<Get(job_data, "job_city", <<>>),
                             Get(job_data, "job_state", <<>>),
                             Get(job_data, "job_country", <<>>)>>, Truthy)
        link == Get(job_data, "job_apply_link", None)
        source_url == IF Truthy(link) THEN link ELSE Get(job_data, "job_url", <<>>)
    IN  IF t = None \/ c = None \/ d = None THEN NoJob
        ELSE IF Strip(t) = <<>> \/ Strip(c) = <<>> THEN NoJob
        ELSE [title |-> Strip(t),
              company |-> Strip(c),
              description |->
                  Slice(IF Strip(d) = <<>> THEN SynthDescription(Strip(c), Strip(t))
                        ELSE Strip(d), DescLimit),
              location |-> Join(parts, <<",", " ">>),
              source_url |-> source_url,
              source |-> "jsearch"]


\* as ScrapeJSearchJobs, but an entry that cannot be parsed ends the source
ScrapeJSearchJobsAbort(api_key, keyword, location, limit, outcome) ==
    IF ~api_key THEN <<>>
    ELSE IF outcome.kind = "exception" THEN <<>>
    ELSE IF outcome.status # 200 THEN <<>>
    ELSE LET jobs_data == Get(outcome.json, "data", <<>>)
             items == Slice(jobs_data, limit)
             parsed == [k \in 1..Len(items) |-> ParseJSearchJob(items[k])]
         IN  IF \E k \in 1..Len(parsed) : ~IsJob(parsed[k]) THEN <<>>
             ELSE parsed

\* JobScraper._scrape_jsearch_jobs: a request that raised and a status other
\* than 200 give no records; so does a payload that is no dictionary
ScrapeJSearchJobs(api_key, keyword, location, limit, outcome) ==
    IF ~api_key THEN <<>>
    ELSE IF outcome.kind = "exception" THEN <<>>
    ELSE IF outcome.status # 200 THEN <<>>
    ELSE LET jobs_data == Get(outcome.json, "data", <<>>)
             items == Slice(jobs_data, limit)
         IN  SelectSeq([k \in 1..Len(items) |-> ParseJSearchJob(items[k])], IsJob)

\* JobScraper._extract_indeed_job_from_card; a card is given by the stripped
\* text of the first element each selector list matches, a key being absent
\* when no selector of the list matches
ExtractIndeedJobFromCard(card) ==
    LET title == Get(card, "title", <<>>)
        company == Get(card, "company", <<>>)
        description == Get(card, "summary", <<>>)
    IN  IF Strip(title) = <<>> \/ Strip(company) = <<>> THEN NoJob
        ELSE [title |-> Strip(title),
              company |-> Strip(company),
              description |->
                  Slice(IF Strip(description) = <<>>
                        THEN SynthDescription(Strip(company), Strip(title))
                        ELSE Strip(description), DescLimit),
              location |-> Strip(Get(card, "location", <<>>)),
              source_url |-> IF HasKey(card, "data_jk")
                             THEN <<"https://www.indeed.com/viewjob?jk=">>
                                    \o card.data_jk
                             ELSE <<>>,
              source |-> "indeed"]

\* the cards of the first selector of job_selectors that matches any
FirstMatch(page) ==
    LET hits == {k \in 1..Len(page) : page[k] # <<>>}
    IN  IF hits = {} THEN <<>>
        ELSE page[CHOOSE k \in hits : \A j \in hits : k <= j]

\* JobScraper._scrape_indeed_jobs: every failure gives no records
ScrapeIndeedJobs(keyword, location, limit, outcome) ==
    IF outcome.kind = "exception" THEN <<>>
    ELSE LET job_cards == FirstMatch(outcome.page)
             cards == Slice(job_cards, limit)
         IN  SelectSeq([k \in 1..Len(cards) |-> ExtractIndeedJobFromCard(cards[k])],
                       IsJob)

\* key of _remove_duplicates
DedupKey(job) ==
    Strip(StrLower(job.title)) \o <<"|">> \o Strip(StrLower(job.company))

\* the loop of _remove_duplicates over jobs[from..], seen being the keys so far
RECURSIVE RemoveDuplicatesFrom(_, _, _)
RemoveDuplicatesFrom(jobs, from, seen) ==
    IF from > Len(jobs) THEN <<>>
    ELSE IF DedupKey(jobs[from]) \in seen
    THEN RemoveDuplicatesFrom(jobs, from + 1, seen)
    ELSE <<jobs[from]>>
           \o RemoveDuplicatesFrom(jobs, from + 1, seen \cup {DedupKey(jobs[from])})

\* JobScraper._remove_duplicates
RemoveDuplicates(jobs) == RemoveDuplicatesFrom(jobs, 1, {})

MockCompanies ==
    <<"TechCorp", "InnovateLab", "DataSoft", "CloudSystems", "AIStartup",
      "DevStudio", "CodeCraft", "ByteDance", "TechFlow", "DigitalHub",
      "Microsoft", "Google", "Amazon", "Meta", "Apple">>
MockJobTypes == <<"Senior", "Junior", "Lead", "Principal", "Staff">>
MockCities ==
    <<"San Francisco, CA", "New York, NY", "Seattle, WA", "Austin, TX", "Remote">>

\* the k-th draw of random.choice among n items, in the pseudo-random stream
\* numbered seed; the streams stand for the states of the generator
Draw(seed, k, n) == ((seed * k) % n) + 1

\* the i-th (0-based) record of _get_mock_jobs
MockJob(keyword, location, i, seed) ==
    LET company == MockCompanies[Draw(seed, 3 * i + 1, Len(MockCompanies))]
        job_type == MockJobTypes[Draw(seed, 3 * i + 2, Len(MockJobTypes))]
    IN  [title |-> <<job_type, " ">> \o StrTitle(keyword),
         company |-> <<company>>,
         description |-> <<"We are looking for a skilled ">> \o keyword
                           \o <<" to join our team at ", company,
                                ". The ideal candidate will have experience in ">>
                           \o StrLower(keyword)
                           \o <<" and related technologies. ",
                                "This is a great opportunity to work with cutting-edge technology and grow your career. ",
                                "Responsibilities include developing software solutions, collaborating with cross-functional teams, ",
                                "and contributing to our innovative products.">>,
         location |-> IF location # <<>> THEN location
                      ELSE <<MockCities[Draw(seed, 3 * i + 3, Len(MockCities))]>>,
         source_url |-> <<"https://example.com/job/">> \o DecStr(i + 1),
         source |-> "mock"]

\* JobScraper._get_mock_jobs: range(min(limit, 15)) records
GetMockJobs(keyword, location, limit, seed) ==
    [k \in 1..Min(limit, MockCap) |-> MockJob(keyword, location, k - 1, seed)]

\* the except branch of JobScraper.scrape_jobs
ScrapeJobsReraise(keyword, location, limit, seed) == Raised
ScrapeJobsExcept(keyword, location, limit, seed) ==
    Returned(GetMockJobs(keyword, location, limit, seed))

\* the end of the try of JobScraper.scrape_jobs: dedup, then cut to limit
FinalJobs(jobs, limit) == Slice(RemoveDuplicates(jobs), limit)

\* limit=min(limit, 50) of the endpoint
CoreLimit(limit) == Min(limit, LimitCap)

\* the answer of the endpoint once job_scraper.scrape_jobs came back
ScrapeJobsResponse(result, req) ==
    IF result.kind = "raise"
    THEN [status |-> 500, detail |-> "Job scraping failed"]
    ELSE [status |-> 200,
          jobs |-> result.val,
          count |-> Len(result.val),
          keyword |-> req.keyword,
          location |-> req.location,
          sources |-> <<"jsearch", "indeed", "mock">>]

-----------------------------------------------------------------------------
(* Inputs of the Job Aggregator *)

\* longest prefix taken of the payloads and pages below
MaxItems == 3

ItemA == [job_title |-> <<"a">>, employer_name |-> <<"b", "|", "c">>,
          job_description |-> <<"d">>, job_city |-> <<"X">>, job_state |-> <<>>,
          job_country |-> <<"U", "S">>, job_apply_link |-> <<"l", "1">>]
\* ItemA again, up to case and surrounding blanks
ItemA2 == [job_title |-> <<" ", "A", " ">>, employer_name |-> <<"B", "|", "c">>,
           job_description |-> <<>>, job_url |-> <<"l", "2">>]
\* another title and company whose joined key equals ItemA's
ItemB == [job_title |-> <<"a", "|", "b">>, employer_name |-> <<"c">>,
          job_description |-> <<"d">>]
ItemNoTitle == [employer_name |-> <<"c">>, job_description |-> <<"d">>]
ItemNullTitle == [job_title |-> None, employer_name |-> <<"c">>]
ItemE == [job_title |-> <<"e">>, employer_name |-> <<"c">>,
          job_description |-> <<"d">>, job_apply_link |-> <<>>]

\* an entry whose description is longer than the cut of line 185
LongText == [i \in 1..(DescLimit + 5) |-> "x"]
ItemLong == [job_title |-> <<"g">>, employer_name |-> <<"h">>,
             job_description |-> LongText]

BasePayloads ==
    {<<ItemA, ItemA2, ItemB, ItemE>>,
     <<ItemNoTitle, ItemA, ItemNullTitle, ItemE>>,
     <<ItemB, ItemE, ItemA, ItemA2>>}

JSearchOutcomes ==
    {[kind |-> "exception"],
     [kind |-> "response", status |-> 429, json |-> [message |-> <<"x">>]],
     [kind |-> "response", status |-> 200, json |-> [status |-> <<"OK">>]]}
      \cup {[kind |-> "response", status |-> 200,
             json |-> [data |-> SubSeq(p, 1, k)]] :
                p \in BasePayloads, k \in 0..MaxItems}
      \cup {[kind |-> "response", status |-> 200, json |-> [data |-> <<ItemLong>>]]}

CardLong == [title |-> <<"g">>, company |-> <<"i">>, summary |-> LongText]
CardA == [title |-> <<"A">>, company |-> <<"b", "|", "c">>, data_jk |-> <<"k", "1">>]
CardE == [title |-> <<"e", " ">>, company |-> <<"e">>, summary |-> <<"s">>,
          location |-> <<"R">>]
CardNoCompany == [title |-> <<"x">>, summary |-> <<"s">>]

BaseCards == {<<CardA, CardE, CardNoCompany, CardA>>,
              <<CardNoCompany, CardE, CardA, CardE>>}

\* a page: the cards each of the four job_selectors matches, in their order
IndeedOutcomes ==
    {[kind |-> "exception"]}
      \cup {[kind |-> "page",
             page |-> [s \in 1..4 |-> IF s >= first THEN SubSeq(c, 1, k) ELSE <<>>]] :
                c \in BaseCards, k \in 0..MaxItems, first \in {1, 3}}
      \cup {[kind |-> "page", page |-> [s \in 1..4 |-> <<CardLong>>]]}

\* length of the long keyword below
KeywordLen == 330
LongKeyword == [i \in 1..KeywordLen |-> "e"]

ScrapeRequests ==
    {[keyword |-> kw, location |-> loc, limit |-> lim] :
        kw \in {<<" ">>, <<" ", "d", " ", "E", "e">>},
        loc \in {<<>>, <<"R", " ">>},
        lim \in {-1, 0, 1, 2, 3, 20, 51}}
      \cup {[keyword |-> LongKeyword, location |-> <<>>, limit |-> 1]}

Seeds == 0..MaxSeed

-----------------------------------------------------------------------------
(* The scrape_jobs request: main.scrape_jobs and JobScraper.scrape_jobs *)

\* main.scrape_jobs up to the call of the scraper: a blank keyword raises an
\* HTTPException(400) inside the handler's try, whose "except Exception"
\* answers every exception with status 500
ScrapeJobsEndpoint ==
    /\ jpc = "idle"
    /\ \E r \in ScrapeRequests :
        /\ jreq' = r
        /\ IF Strip(r.keyword) = <<>>
           THEN /\ jresponse' = [status |-> 500,
                                 detail |-> "Job scraping failed: 400: Keyword is required"]
                /\ jpc' = "done"
                /\ UNCHANGED jargs
           ELSE /\ jargs' = [keyword |-> Strip(r.keyword),
                             location |-> Strip(r.location),
                             limit |-> CoreLimit(r.limit)]
                /\ jpc' = "jsearch"
                /\ UNCHANGED jresponse
    /\ all_jobs' = <<>>
    /\ UNCHANGED <<jsearch_api_key, jlog, jresult, svars, cvars>>

\* lines 60-64 of JobScraper.scrape_jobs
JSearchStep ==
    /\ jpc = "jsearch"
    /\ IF jsearch_api_key
       THEN \E outcome \in JSearchOutcomes :
              LET jsearch_jobs == ScrapeJSearchJobs(jsearch_api_key, jargs.keyword,
                                                    jargs.location, jargs.limit,
                                                    outcome)
              IN  /\ all_jobs' = all_jobs \o jsearch_jobs
                  /\ jlog' = Append(jlog, [ev |-> "jsearch", limit |-> jargs.limit,
                                           outcome |-> outcome,
                                           jobs |-> jsearch_jobs])
       ELSE UNCHANGED <<all_jobs, jlog>>
    /\ jpc' = "indeed"
    /\ UNCHANGED <<jsearch_api_key, jreq, jargs, jresult, jresponse, svars, cvars>>

\* line 68 of JobScraper.scrape_jobs: remaining = limit - len(all_jobs)
RemainingIsLimit(jobs, limit) == limit
Remaining(jobs, limit) == limit - Len(jobs)

\* lines 67-72 of JobScraper.scrape_jobs
IndeedStep ==
    /\ jpc = "indeed"
    /\ IF Len(all_jobs) < jargs.limit
       THEN \E outcome \in IndeedOutcomes :
              LET remaining == Remaining(all_jobs, jargs.limit)
                  indeed_jobs == ScrapeIndeedJobs(jargs.keyword, jargs.location,
                                                  remaining, outcome)
              IN  /\ all_jobs' = all_jobs \o indeed_jobs
                  /\ jlog' = Append(jlog, [ev |-> "indeed", limit |-> remaining,
                                           outcome |-> outcome,
                                           jobs |-> indeed_jobs])
       ELSE UNCHANGED <<all_jobs, jlog>>
    /\ jpc' = "finish"
    /\ UNCHANGED <<jsearch_api_key, jreq, jargs, jresult, jresponse, svars, cvars>>

\* lines 75-81 of JobScraper.scrape_jobs
FinishScrape ==
    /\ jpc = "finish"
    /\ jresult' = Returned(FinalJobs(all_jobs, jargs.limit))
    /\ jpc' = "returned"
    /\ UNCHANGED <<jsearch_api_key, jreq, jargs, all_jobs, jlog, jresponse, svars, cvars>>

\* an exception that none of the inner handlers catches (a MemoryError, say)
\* raised at some point of the try of JobScraper.scrape_jobs: lines 83-86
ScrapeFault ==
    /\ jpc \in {"jsearch", "indeed", "finish"}
    /\ \E seed \in Seeds :
        /\ jresult' = ScrapeJobsExcept(jargs.keyword, jargs.location,
                                       jargs.limit, seed)
        /\ jlog' = Append(jlog, [ev |-> "fault", at |-> jpc, seed |-> seed])
    /\ jpc' = "returned"
    /\ UNCHANGED <<jsearch_api_key, jreq, jargs, all_jobs, jresponse, svars, cvars>>

\* main.scrape_jobs after the scraper came back
ScrapeJobsRespond ==
    /\ jpc = "returned"
    /\ jresponse' = ScrapeJobsResponse(jresult, jreq)
    /\ jpc' = "done"
    /\ UNCHANGED <<jsearch_api_key, jreq, jargs, all_jobs, jlog, jresult, svars, cvars>>

NextScrape ==
    \/ ScrapeJobsEndpoint
    \/ JSearchStep
    \/ IndeedStep
    \/ FinishScrape
    \/ ScrapeFault
    \/ ScrapeJobsRespond

InitScrape ==
    /\ jsearch_api_key \in BOOLEAN
    /\ jpc = "idle"
    /\ jreq = NoRequest
    /\ jargs = NoRequest
    /\ all_jobs = <<>>
    /\ jlog = <<>>
    /\ jresult = NoRequest
    /\ jresponse = NoRequest

-----------------------------------------------------------------------------
(* Two invocations interleaved on the shared JobScraper and AIMatcher:    *)
(* each coroutine runs from one await to the next without interruption    *)

CallIds == {1, 2}

ConcScrapeCalls ==
    {[op |-> "scrape", keyword |-> <<"d">>, location |-> <<>>, limit |-> lim] :
        lim \in {1, 3}}
ConcScoreCalls ==
    {[op |-> "score", jobs |-> JobList(n, 0), user_skills |-> None,
      user_experience |-> <<"3", "y">>] : n \in {2, MaxJobs}}

ConcJSearchOutcomes ==
    {o \in JSearchOutcomes :
        \/ o.kind = "exception"
        \/ o.status = 200 /\ HasKey(o.json, "data") /\ Len(o.json.data) = 2}
\* an Indeed response, with or without a Set-Cookie header
ConcIndeedOutcomes ==
    {[resp |-> o, set_cookie |-> c] :
        o \in {x \in IndeedOutcomes :
                  x.kind = "exception" \/ Len(x.page[1]) = 2},
        c \in BOOLEAN}
ConcProviderOutcomes ==
    {[kind |-> "exception"], [kind |-> "text", text |-> None],
     [kind |-> "text",
      text |-> ScoreLine(1, <<"7", "7">>, Separator \o <<"o", "k">>)]}

\* the locals of a coroutine before its first statement
NewFrame ==
    [all_jobs |-> <<>>, scored_jobs |-> <<>>, i |-> 0,
     user_profile |-> [resume_content |-> <<>>, skills |-> <<>>,
                       experience |-> <<>>]]

\* all_jobs, scored_jobs, i and user_profile are locals of the coroutine of
\* one invocation, never attributes of the shared instance
FrameOfInstance(frames, id) == frames[1]
Frame(frames, id) == frames[id]

\* what requests.Session keeps of a response: its cookies join the jar
StoreCookies(jar, id, outcome) ==
    IF outcome.resp.kind = "page" /\ outcome.set_cookie
    THEN jar \cup {id} ELSE jar

\* the call enters scrape_jobs or score_jobs
ConcBegin(id) ==
    /\ cpc[id] = "idle"
    /\ \E call \in ConcScrapeCalls \cup ConcScoreCalls :
        /\ cargs' = [cargs EXCEPT ![id] = call]
        /\ cpc' = [cpc EXCEPT ![id] = IF call.op = "scrape" THEN "jsearch"
                                                            ELSE "resume"]
    /\ cloc' = [cloc EXCEPT ![id] = NewFrame]
    /\ UNCHANGED <<session, cext, csent, cres, svars, jvars>>

\* job_scraper.py:60-67: the JSearch step, up to the sleep of the Indeed step
ConcJSearch(id) ==
    /\ cpc[id] = "jsearch"
    /\ LET f == Frame(cloc, id)
           a == cargs[id]
       IN  \E outcome \in IF jsearch_api_key THEN ConcJSearchOutcomes
                                             ELSE {NoCall} :
             LET jobs == IF jsearch_api_key
                         THEN ScrapeJSearchJobs(jsearch_api_key, a.keyword,
                                                a.location, a.limit, outcome)
                         ELSE <<>>
                 all == f.all_jobs \o jobs
             IN  /\ cloc' = [cloc EXCEPT ![id].all_jobs = all]
                 /\ cext' = [cext EXCEPT ![id] = Append(@, outcome)]
                 /\ cpc' = [cpc EXCEPT ![id] = IF Len(all) < a.limit
                                               THEN "sleep" ELSE "finish"]
    /\ UNCHANGED <<session, cargs, csent, cres, svars, jvars>>

\* job_scraper.py:235: after the sleep, self.session.get sends the jar's
\* cookies and stores those of the response
ConcIndeedGet(id) ==
    /\ cpc[id] = "sleep"
    /\ LET f == Frame(cloc, id)
           a == cargs[id]
       IN  \E outcome \in ConcIndeedOutcomes :
             /\ csent' = [csent EXCEPT ![id] = session]
             /\ session' = StoreCookies(session, id, outcome)
             /\ cloc' = [cloc EXCEPT ![id].all_jobs =
                            f.all_jobs \o ScrapeIndeedJobs(
                                a.keyword, a.location,
                                a.limit - Len(f.all_jobs), outcome.resp)]
             /\ cext' = [cext EXCEPT ![id] = Append(@, outcome.resp)]
    /\ cpc' = [cpc EXCEPT ![id] = "finish"]
    /\ UNCHANGED <<cargs, cres, svars, jvars>>

\* job_scraper.py:75-81
ConcScrapeReturn(id) ==
    /\ cpc[id] = "finish"
    /\ cres' = [cres EXCEPT ![id] =
                   Returned(FinalJobs(Frame(cloc, id).all_jobs, cargs[id].limit))]
    /\ cpc' = [cpc EXCEPT ![id] = "done"]
    /\ UNCHANGED <<session, cargs, cloc, cext, csent, svars, jvars>>

\* ai_matcher.py:63-72
ConcResume(id) ==
    /\ cpc[id] = "resume"
    /\ \E fetched \in BOOLEAN :
        /\ cloc' = [cloc EXCEPT ![id].user_profile =
                       [resume_content |-> IF fetched THEN ResumeExtracted
                                                      ELSE ResumeUnavailable,
                        skills |-> <<>>,
                        experience |-> cargs[id].user_experience]]
        /\ cext' = [cext EXCEPT ![id] = Append(@, fetched)]
    /\ cpc' = [cpc EXCEPT ![id] = "batch"]
    /\ UNCHANGED <<session, cargs, csent, cres, svars, jvars>>

\* ai_matcher.py:74-86: one batch, up to the sleep or the return
ConcBatch(id) ==
    /\ cpc[id] = "batch"
    /\ LET f == Frame(cloc, id)
           jobs == cargs[id].jobs
           batch == SubSeq(jobs, f.i + 1, Min(f.i + BatchSize, Len(jobs)))
           called == SelectedProvider(openai_client, claude_client) # "none"
                     /\ CreateScoringPrompt(f.user_profile, batch).kind # "raise"
       IN  \E outcome \in IF called THEN ConcProviderOutcomes ELSE {NoCall} :
             LET r == ScoreJobBatch(openai_client, claude_client,
                                    f.user_profile, batch, outcome)
             IN  /\ cext' = [cext EXCEPT ![id] = Append(@, outcome)]
                 /\ IF r.kind = "raise"
                    THEN /\ cres' = [cres EXCEPT ![id] = ScoreJobsExcept(jobs)]
                         /\ cpc' = [cpc EXCEPT ![id] = "done"]
                         /\ UNCHANGED cloc
                    ELSE /\ cloc' = [cloc EXCEPT ![id].scored_jobs =
                                        f.scored_jobs \o r.val]
                         /\ IF f.i + BatchSize < Len(jobs)
                            THEN /\ cpc' = [cpc EXCEPT ![id] = "pause"]
                                 /\ UNCHANGED cres
                            ELSE /\ cpc' = [cpc EXCEPT ![id] = "done"]
                                 /\ cres' = [cres EXCEPT ![id] =
                                       Returned(f.scored_jobs \o r.val)]
    /\ UNCHANGED <<session, cargs, csent, svars, jvars>>

\* ai_matcher.py:82-83 and the next turn of the loop
ConcPause(id) ==
    /\ cpc[id] = "pause"
    /\ cloc' = [cloc EXCEPT ![id].i = Frame(cloc, id).i + BatchSize]
    /\ cpc' = [cpc EXCEPT ![id] = "batch"]
    /\ UNCHANGED <<session, cargs, cext, csent, cres, svars, jvars>>

NextConc ==
    \E id \in CallIds :
        \/ ConcBegin(id)
        \/ ConcJSearch(id)
        \/ ConcIndeedGet(id)
        \/ ConcScrapeReturn(id)
        \/ ConcResume(id)
        \/ ConcBatch(id)
        \/ ConcPause(id)

InitConc ==
    /\ session = {}
    /\ cpc = [id \in CallIds |-> "idle"]
    /\ cargs = [id \in CallIds |-> NoRequest]
    /\ cloc = [id \in CallIds |-> NewFrame]
    /\ cext = [id \in CallIds |-> <<>>]
    /\ csent = [id \in CallIds |-> {}]
    /\ cres = [id \in CallIds |-> NoRequest]

Init == InitScore /\ InitScrape /\ InitConc

Next == NextScore \/ NextScrape \/ NextConc

SpecScore == Init /\ [][NextScore]_vars
SpecScrape == Init /\ [][NextScrape]_vars
SpecConcurrent == Init /\ [][NextConc]_vars
Spec == Init /\ [][Next]_vars

-----------------------------------------------------------------------------
(* Properties of the Fit Scorer *)

BatchEvents == {k \in 1..Len(slog) : slog[k].ev = "batch"}
\* the batches whose records came out of _parse_ai_scores' loop
ParsedEvents ==
    {k \in BatchEvents : /\ slog[k].called
                         /\ slog[k].outcome.kind = "text"
                         /\ slog[k].outcome.text # None}
LinesOf(k) == Split(Strip(slog[k].outcome.text), <<"\n">>)

NonIncreasing(seq) ==
    \A i, j \in 1..Len(seq) : i < j => seq[i].fit_score >= seq[j].fit_score

\* the position in the request of the job a record was made from
InputIndex(rec) ==
    CHOOSE k \in 1..Len(sreq.jobs) : sreq.jobs[k].source_url = rec.source_url
\* the position of a record in the list the scorer returned
ScorerIndex(rec) == CHOOSE k \in 1..Len(sresult.val) : sresult.val[k] = rec

Answered == spc = "done" /\ sresponse.status = 200

\* C1 (as claimed): AIMatcher.score_jobs always returns a list and never
\* propagates an exception, and a batch scored without a provider, or whose
\* provider call raised, carries the mock scores.
C1_FailOpen ==
    /\ spc = "returned" => sresult.kind = "list"
    /\ \A k \in BatchEvents :
        (~slog[k].called \/ slog[k].outcome.kind = "exception") =>
            /\ slog[k].result.kind = "list"
            /\ \A j \in 1..slog[k].size :
                slog[k].result.val[j].fit_score = MockScore(j - 1)

\* C4 (as claimed): the list AIMatcher.score_jobs returns is sorted
\* non-increasing by fit_score.
C4_ScorerReturnsSorted ==
    (spc = "returned" /\ sresult.kind = "list") => NonIncreasing(sresult.val)

\* C4 (amended): AIMatcher.score_jobs returns the records in the order of the
\* input jobs; the list is sorted by the endpoint, and the list the endpoint
\* answers with is non-increasing by fit_score with equal scores in the
\* relative order of their jobs in the input list.
C4_EndpointSortedStable ==
    /\ (spc \in {"returned", "done"} /\ sresult.kind = "list") =>
          /\ Len(sresult.val) = Len(sreq.jobs)
          /\ \A k \in 1..Len(sresult.val) : InputIndex(sresult.val[k]) = k
    /\ Answered =>
          /\ NonIncreasing(sresponse.scored_jobs)
          /\ \A i, j \in 1..Len(sresponse.scored_jobs) :
                (i < j /\ sresponse.scored_jobs[i].fit_score
                            = sresponse.scored_jobs[j].fit_score)
                => InputIndex(sresponse.scored_jobs[i])
                     < InputIndex(sresponse.scored_jobs[j])

\* C4 witness: an answered request whose scorer result was not sorted and
\* held equal scores on both sides of a batch boundary.
C4_Witness ==
    /\ Answered
    /\ ~NonIncreasing(sresult.val)
    /\ \E i, j \in 1..Len(sresult.val) :
          /\ i <= BatchSize /\ j > BatchSize
          /\ sresult.val[i].fit_score = sresult.val[j].fit_score

\* C5 (as claimed): without a provider the job at 0-based position i of the
\* input list gets the score max(40, min(95, (85 - 3i) + (i mod 3) * 5)).
C5_MockScoreByListPosition ==
    (/\ spc = "returned"
     /\ sresult.kind = "list"
     /\ SelectedProvider(openai_client, claude_client) = "none")
    => \A k \in 1..Len(sresult.val) : sresult.val[k].fit_score = MockScore(k - 1)

AllScoredJobs ==
    {scored_jobs[k] : k \in 1..Len(scored_jobs)}
      \cup UNION {{slog[k].result.val[j] : j \in 1..Len(slog[k].result.val)} :
                    k \in {e \in BatchEvents : slog[e].result.kind = "list"}}
      \cup (IF sresult.kind = "list"
            THEN {sresult.val[k] : k \in 1..Len(sresult.val)} ELSE {})
      \cup (IF Answered
            THEN {sresponse.scored_jobs[k] : k \in 1..Len(sresponse.scored_jobs)}
            ELSE {})

\* C8: every ScoredJob the scorer makes has an integer fit_score from 0 to
\* 100, and a score a provider gave outside of that range becomes the nearest
\* bound: above 100 it is 100, below 0 it is 0.
C8_FitScoreInRange ==
    /\ \A r \in AllScoredJobs : r.fit_score \in 0..100
    /\ \A k \in ParsedEvents : \A j \in 1..slog[k].size :
          LET raw == ParseJobLine(LinesOf(k), j).score
              got == slog[k].result.val[j].fit_score
          IN  /\ raw > 100 => got = 100
              /\ raw < 0 => got = 0
              /\ raw \in 0..100 => got = raw

\* C8 witness: one run in which a provider score above 100 and one below 0
\* were both clamped.
C8_Witness ==
    /\ \E k \in ParsedEvents : \E j \in 1..slog[k].size :
          /\ ParseJobLine(LinesOf(k), j).score > 100
          /\ slog[k].result.val[j].fit_score = 100
    /\ \E k \in ParsedEvents : \E j \in 1..slog[k].size :
          /\ ParseJobLine(LinesOf(k), j).score < 0
          /\ slog[k].result.val[j].fit_score = 0

\* what the claim calls a line of the form "Job n: <integer> - <text>"
C9_HasForm(line, n) ==
    LET p == Find(line, Separator)
        head == Strip(SubSeq(line, 1, p - 1))
    IN  /\ p > 0
        /\ Len(head) > Len(JobTag(n))
        /\ SubSeq(head, 1, Len(JobTag(n))) = JobTag(n)
        /\ IsIntLiteral(SubSeq(head, Len(JobTag(n)) + 1, Len(head)))
C9_Score(line, n) ==
    LET head == Strip(SubSeq(line, 1, Find(line, Separator) - 1))
    IN  IntValue(SubSeq(head, Len(JobTag(n)) + 1, Len(head)))
\* the text following the first separator
C9_Text(line) ==
    Strip(SubSeq(line, Find(line, Separator) + Len(Separator), Len(line)))

\* C9 (as claimed): a job whose number n has a line of the form
\* "Job n: <integer> - <text>" gets that integer, clamped to 0..100, and the
\* text following the first " - "; a job without such a line gets 50 and
\* "AI analysis completed".
C9_ParsePerJob ==
    \A k \in ParsedEvents : \A n \in 1..slog[k].size :
        LET lines == LinesOf(k)
            formed == {i \in 1..Len(lines) : C9_HasForm(lines[i], n)}
            got == slog[k].result.val[n]
        IN  IF formed # {}
            THEN LET line == lines[CHOOSE i \in formed : \A j \in formed : i <= j]
                 IN  /\ got.fit_score = Max(0, Min(100, C9_Score(line, n)))
                     /\ got.score_explanation = C9_Text(line)
            ELSE /\ got.fit_score = DefaultScore
                 /\ got.score_explanation = DefaultExplanation

\* C10: the scored_jobs of the endpoint's answer are non-increasing by
\* fit_score, equal scores in the order the scorer produced them, one record
\* per submitted job, and average_score is the arithmetic mean of the
\* returned scores.
C10_ResponseSortedWithMean ==
    Answered =>
        LET out == sresponse.scored_jobs
        IN  /\ NonIncreasing(out)
            /\ Len(out) = Len(sreq.jobs)
            /\ sresponse.count = Len(sreq.jobs)
            /\ \A k \in 1..Len(sreq.jobs) :
                  Cardinality({i \in 1..Len(out) : InputIndex(out[i]) = k}) = 1
            /\ \A i, j \in 1..Len(out) :
                  (i < j /\ out[i].fit_score = out[j].fit_score)
                  => ScorerIndex(out[i]) < ScorerIndex(out[j])
            /\ sresponse.average_score.den > 0
            /\ sresponse.average_score.num * Len(out)
                 = SumScores(out) * sresponse.average_score.den

\* C10 witness: an answer over more than one batch with equal and unequal
\* scores whose mean is no whole number.
C10_Witness ==
    /\ Answered
    /\ Len(sresponse.scored_jobs) > BatchSize
    /\ \E i, j \in 1..Len(sresponse.scored_jobs) :
          /\ i < j
          /\ sresponse.scored_jobs[i].fit_score = sresponse.scored_jobs[j].fit_score
    /\ \E i, j \in 1..Len(sresponse.scored_jobs) :
          sresponse.scored_jobs[i].fit_score > sresponse.scored_jobs[j].fit_score
    /\ SumScores(sresponse.scored_jobs) % Len(sresponse.scored_jobs) # 0



-----------------------------------------------------------------------------
(* Properties of the Job Aggregator *)

\* the try of JobScraper.scrape_jobs was left through its except branch
Faulted == jlog # <<>> /\ jlog[Len(jlog)].ev = "fault"
ScrapeReturned == jpc \in {"returned", "done"} /\ jresult.kind # "none"
SourceEvents == {k \in 1..Len(jlog) : jlog[k].ev \in {"jsearch", "indeed"}}

\* the lowercase-normalized (title, company) pair of a record
NormPair(job) == <<Strip(StrLower(job.title)), Strip(StrLower(job.company))>>

\* C2: JobScraper.scrape_jobs always returns a list and never raises; when an
\* unhandled error ends the try, what it returns is the mock list alone,
\* max(0, min(limit, 15)) records of source "mock", whatever had been
\* collected before.
C2_ScrapeFailOpen ==
    /\ ScrapeReturned => jresult.kind = "list"
    /\ (ScrapeReturned /\ Faulted) =>
          /\ jresult.kind = "list"
          /\ Len(jresult.val) = Max(0, Min(jargs.limit, MockCap))
          /\ \A k \in 1..Len(jresult.val) : jresult.val[k].source = "mock"

\* C2 witness: an unhandled error after records had been collected, answered
\* with mock records.
C2_Witness ==
    /\ jpc = "returned"
    /\ Faulted
    /\ all_jobs # <<>>
    /\ jresult.kind = "list"
    /\ Len(jresult.val) > 1

\* C3 (as claimed): when neither source yields a record, fetch returns
\* min(limit, 15) records of source "mock", each title containing the
\* title-cased keyword, each location the requested one if one was given.
C3_MockWhenSourcesEmpty ==
    (/\ jpc = "returned"
     /\ jresult.kind = "list"
     /\ jargs.limit >= 1
     /\ \A k \in SourceEvents : jlog[k].jobs = <<>>)
    => /\ Len(jresult.val) = Min(jargs.limit, MockCap)
       /\ \A k \in 1..Len(jresult.val) :
            /\ jresult.val[k].source = "mock"
            /\ Contains(jresult.val[k].title, StrTitle(jargs.keyword))
            /\ jargs.location # <<>> => jresult.val[k].location = jargs.location

\* C6 (as claimed): no two records of a returned list share the normalized
\* (title, company) pair, on the normal and on the mock path; and only
\* records sharing that pair are removed as duplicates, so that a list that
\* is not cut holds one record per distinct pair collected.
C6_NoDuplicatePairs ==
    (jpc = "returned" /\ jresult.kind = "list") =>
        /\ \A i, j \in 1..Len(jresult.val) :
              i < j => NormPair(jresult.val[i]) # NormPair(jresult.val[j])
        /\ (~Faulted /\ jargs.limit >= Len(all_jobs)) =>
              Len(jresult.val)
                = Cardinality({NormPair(all_jobs[k]) : k \in 1..Len(all_jobs)})

\* C7 (as claimed): the limit handed to the core is at most 50 and the
\* number of jobs returned is at most that limit, for every integer limit;
\* a count being never negative, "at most limit" is read as "none" for a
\* limit below 1.
C7_AtMostLimit ==
    /\ jpc \notin {"idle", "done"} => jargs.limit <= LimitCap
    /\ (jpc = "done" /\ jresponse.status = 200) =>
          /\ jargs.limit <= LimitCap
          /\ Len(jresponse.jobs) <= Max(0, jargs.limit)

-----------------------------------------------------------------------------
(* Properties of the two endpoints *)

ScoreRequestInvalid == sreq.jobs = <<>> \/ sreq.resume_url = <<>>
ScrapeRequestInvalid == Strip(jreq.keyword) = <<>>

\* C11 (as claimed): a request with a blank keyword, an empty jobs list or an
\* empty resume_url is answered with status 400 without the core having been
\* invoked, and a caller sees no other error than these.
C11_ValidationAnswers400 ==
    /\ (jpc = "done" /\ ScrapeRequestInvalid) =>
           jresponse.status = 400 /\ jlog = <<>>
    /\ (spc = "done" /\ ScoreRequestInvalid) =>
           sresponse.status = 400 /\ slog = <<>>
    /\ (jpc = "done" /\ jresponse.status # 200) => ScrapeRequestInvalid
    /\ (spc = "done" /\ sresponse.status # 200) => ScoreRequestInvalid

-----------------------------------------------------------------------------
(* Properties of concurrent invocations *)

\* JobScraper.scrape_jobs run from its first to its last line on the
\* responses exts, nothing else running
AloneScrape(call, exts) ==
    LET jsearch_jobs == IF jsearch_api_key
                        THEN ScrapeJSearchJobs(jsearch_api_key, call.keyword,
                                               call.location, call.limit, exts[1])
                        ELSE <<>>
        indeed_jobs == IF Len(jsearch_jobs) < call.limit
                       THEN ScrapeIndeedJobs(call.keyword, call.location,
                                             call.limit - Len(jsearch_jobs),
                                             exts[2])
                       ELSE <<>>
    IN  Returned(FinalJobs(jsearch_jobs \o indeed_jobs, call.limit))

RECURSIVE AloneBatches(_, _, _, _)
AloneBatches(user_profile, jobs, i, outs) ==
    IF i >= Len(jobs) THEN <<>>
    ELSE ScoreJobBatch(openai_client, claude_client, user_profile,
                       SubSeq(jobs, i + 1, Min(i + BatchSize, Len(jobs))),
                       outs[1]).val
           \o AloneBatches(user_profile, jobs, i + BatchSize, Tail(outs))

\* AIMatcher.score_jobs run alone on the responses exts
AloneScore(call, exts) ==
    Returned(AloneBatches(
        [resume_content |-> IF exts[1] THEN ResumeExtracted
                                       ELSE ResumeUnavailable,
         skills |-> <<>>, experience |-> call.user_experience],
        call.jobs, 0, Tail(exts)))

Alone(id) ==
    IF cargs[id].op = "scrape" THEN AloneScrape(cargs[id], cext[id])
                               ELSE AloneScore(cargs[id], cext[id])

\* C12 (amended): however two invocations are interleaved, each returns what
\* it returns when run alone on the responses it received; the cookie jar of
\* the shared session, though, is written by the Indeed responses, and a
\* request carries exactly the cookies stored before it, those of the other
\* invocation included.
C12_ResultAsWhenRunAlone ==
    /\ \A id \in CallIds : cpc[id] = "done" => cres[id] = Alone(id)
    /\ \A id \in CallIds : csent[id] \subseteq session

\* C12: both invocations went through the Indeed step, the second request
\* carrying the cookie the first response had stored
C12_Witness ==
    /\ \A id \in CallIds : cpc[id] = "done" /\ cargs[id].op = "scrape"
    /\ cres[1].val # <<>> /\ cres[2].val # <<>> /\ cres[1] # cres[2]
    /\ 1 \in csent[2]

\* C12 (as claimed): each invocation returns what it returns alone, no
\* shared object is modified after initialization, and no invocation reads
\* what the other wrote.
C12_NothingSharedIsWritten ==
    /\ \A id \in CallIds : cpc[id] = "done" => cres[id] = Alone(id)
    /\ session = {}
    /\ \A id \in CallIds : csent[id] \subseteq {id}

-----------------------------------------------------------------------------
(* Properties of the provider selection *)

BatchOf(k) == SubSeq(sreq.jobs, slog[k].from + 1, slog[k].from + slog[k].size)

\* C13: for each batch at most one provider is called, OpenAI if it is
\* configured, else Claude if it is configured, else none (mock scores);
\* Claude is never called when both are configured; and a batch whose
\* provider call failed carries the mock scores, no other provider tried.
C13_OneProviderByPriority ==
    \A k \in BatchEvents :
        LET e == slog[k]
        IN  /\ Len(e.calls) <= 1
            /\ \A c \in 1..Len(e.calls) :
                 e.calls[c] = IF openai_client THEN "openai" ELSE "claude"
            /\ e.calls # <<>> => (openai_client \/ claude_client)
            /\ (~openai_client /\ ~claude_client) =>
                 e.result = GenerateMockScores(BatchOf(k))
            /\ (e.calls # <<>> /\ e.outcome.kind = "exception") =>
                 e.result = GenerateMockScores(BatchOf(k))

\* C13: with both providers configured, the OpenAI call of a second batch
\* failed and the batch got its mock scores
C13_Witness ==
    /\ openai_client /\ claude_client
    /\ \E k \in BatchEvents :
        /\ slog[k].from = BatchSize
        /\ slog[k].calls = <<"openai">>
        /\ slog[k].outcome.kind = "exception"
        /\ slog[k].result.kind = "list"
        /\ Len(slog[k].result.val) = slog[k].size
        /\ \A j \in 1..slog[k].size :
             slog[k].result.val[j].score_explanation = MockExplanation

-----------------------------------------------------------------------------
(* Properties of the order of the sources *)

JSearchEvents == {k \in 1..Len(jlog) : jlog[k].ev = "jsearch"}
IndeedEvents == {k \in 1..Len(jlog) : jlog[k].ev = "indeed"}
\* the number of records the structured API had delivered before event k
ObtainedBefore(k) ==
    IF \E j \in JSearchEvents : j < k
    THEN Len(jlog[CHOOSE j \in JSearchEvents : j < k].jobs)
    ELSE 0

\* C14: the HTML source is queried only after the structured-API step is
\* over, only if that step left fewer than limit records, and then for
\* exactly limit minus the number obtained; it is not contacted when the
\* API delivered limit records.
C14_IndeedOnlyForShortfall ==
    /\ jpc = "jsearch" => IndeedEvents = {}
    /\ Cardinality(JSearchEvents) <= 1 /\ Cardinality(IndeedEvents) <= 1
    /\ \A k \in IndeedEvents :
        /\ \A j \in JSearchEvents : j < k
        /\ jsearch_api_key => JSearchEvents # {}
        /\ ObtainedBefore(k) < jargs.limit
        /\ jlog[k].limit = jargs.limit - ObtainedBefore(k)
    /\ \A j \in JSearchEvents :
        Len(jlog[j].jobs) >= jargs.limit => IndeedEvents = {}

\* C14: the API delivered one record of the three asked for, and the HTML
\* source was then asked for two and delivered
C14_Witness ==
    /\ jpc = "done"
    /\ \E j \in JSearchEvents, k \in IndeedEvents :
        /\ jargs.limit = 3
        /\ Len(jlog[j].jobs) = 1
        /\ jlog[k].limit = 2
        /\ Len(jlog[k].jobs) = 2

-----------------------------------------------------------------------------
(* Properties of the failure handling of the sources *)

SourceFailed(e) ==
    \/ e.outcome.kind = "exception"
    \/ e.ev = "jsearch" /\ e.outcome.status # 200

\* an entry of the structured API that carries a title and a company
UsableItem(item) ==
    /\ HasKey(item, "job_title") /\ HasKey(item, "employer_name")
    /\ item.job_title # None /\ item.employer_name # None
    /\ Strip(item.job_title) # <<>> /\ Strip(item.employer_name) # <<>>

RECURSIVE LoggedJobs(_)
\* the records the sources delivered, in the order of the queries
LoggedJobs(k) ==
    IF k = 0 THEN <<>>
    ELSE LoggedJobs(k - 1) \o (IF k \in SourceEvents THEN jlog[k].jobs ELSE <<>>)

\* C15: a source step that fails delivers no records and an entry that
\* cannot be parsed is left out, the others kept; neither ends the request:
\* after a failed API step the HTML source is still asked, and what the
\* sources delivered is deduplicated, truncated and returned.
C15_SourceFailureAbsorbed ==
    /\ \A k \in SourceEvents : SourceFailed(jlog[k]) => jlog[k].jobs = <<>>
    /\ \A k \in JSearchEvents :
        (~SourceFailed(jlog[k]) /\ HasKey(jlog[k].outcome.json, "data")) =>
            LET items == Slice(jlog[k].outcome.json.data, jlog[k].limit)
            IN  Len(jlog[k].jobs) =
                    Cardinality({i \in 1..Len(items) : UsableItem(items[i])})
    /\ (jpc \in {"finish", "returned", "done"} /\ jlog # <<>> /\ ~Faulted) =>
        /\ \A k \in JSearchEvents :
             (SourceFailed(jlog[k]) /\ jargs.limit >= 1) => IndeedEvents # {}
    /\ (ScrapeReturned /\ ~Faulted) =>
        /\ jresult.kind = "list"
        /\ jresult.val = FinalJobs(LoggedJobs(Len(jlog)), jargs.limit)

\* C15: the API request failed, the HTML source was asked all the same, one
\* of its cards could not be used, and the others were returned
C15_Witness ==
    /\ jpc = "done" /\ ~Faulted
    /\ \E j \in JSearchEvents, k \in IndeedEvents :
        /\ jlog[j].outcome.kind = "exception"
        /\ jlog[k].outcome.kind = "page"
        /\ Len(FirstMatch(jlog[k].outcome.page)) = 3
        /\ Len(jlog[k].jobs) = 2
        /\ jresponse.status = 200
        /\ jresult.val = jlog[k].jobs

-----------------------------------------------------------------------------
(* Properties of the merged list *)

\* seq without every record whose normalized (title, company) pair occurred
\* at an earlier position
FirstOfEachPair(seq) ==
    SelectSeq([k \in 1..Len(seq) |->
                  IF \E j \in 1..(k - 1) : NormPair(seq[j]) = NormPair(seq[k])
                  THEN NoJob ELSE seq[k]], IsJob)

\* the first n records of seq
FirstRecords(seq, n) == SubSeq(seq, 1, Min(n, Len(seq)))

\* C16 (as claimed): on the normal path the list returned is the API records
\* followed by the HTML records, every record whose (title, company) pair
\* occurred earlier removed, the order kept, then the first limit records.
C16_MergedDedupThenCut ==
    (ScrapeReturned /\ ~Faulted) =>
        jresult.val = FirstRecords(FirstOfEachPair(LoggedJobs(Len(jlog))),
                                   jargs.limit)

-----------------------------------------------------------------------------
(* Properties of the batch loop *)

\* the number of batches submitted before event k
BatchesBefore(k) == Cardinality({j \in BatchEvents : j < k})
SleepEvents == {k \in 1..Len(slog) : slog[k].ev = "sleep"}
CeilDiv(n, d) == (n + d - 1) \div d
ScoreReturned == spc \in {"returned", "done"} /\ sresult.kind # "none"

\* C17 (as claimed): the n jobs are split into consecutive batches of five,
\* the last holding the remainder, no batch larger than five and every job in
\* exactly one batch; the result holds n records, the k-th made from the k-th
\* job.
C17_BatchesOfFive ==
    /\ \A k \in BatchEvents :
        /\ slog[k].from = BatchSize * BatchesBefore(k)
        /\ slog[k].size = Min(BatchSize, Len(sreq.jobs) - slog[k].from)
        /\ slog[k].size >= 1 /\ slog[k].size <= BatchSize
    /\ ScoreReturned =>
        /\ Cardinality(BatchEvents) = CeilDiv(Len(sreq.jobs), BatchSize)
        /\ sresult.kind = "list"
        /\ Len(sresult.val) = Len(sreq.jobs)
        /\ \A k \in 1..Len(sreq.jobs) :
            /\ sresult.val[k].title = sreq.jobs[k].title
            /\ sresult.val[k].company = sreq.jobs[k].company
            /\ sresult.val[k].description = sreq.jobs[k].description
            /\ sresult.val[k].location = Get(sreq.jobs[k], "location", None)
            /\ sresult.val[k].source_url = sreq.jobs[k].source_url

\* C18 (as claimed): a pause follows a batch exactly when another batch
\* follows it, none comes first or last, and a run over n >= 1 jobs makes
\* ceil(n/5) - 1 pauses.
C18_PauseBetweenBatches ==
    /\ \A k \in SleepEvents :
        /\ k > 1 /\ slog[k - 1].ev = "batch"
        /\ slog[k - 1].from + BatchSize < Len(sreq.jobs)
    /\ \A k \in BatchEvents : k > 1 => slog[k - 1].ev = "sleep"
    /\ ScoreReturned =>
        /\ slog[Len(slog)].ev = "batch"
        /\ Cardinality(SleepEvents) = CeilDiv(Len(sreq.jobs), BatchSize) - 1

-----------------------------------------------------------------------------
(* Properties of the records returned *)

SourceTags == {"jsearch", "indeed", "mock"}

\* C19 (as claimed): every record returned, from the structured API, the HTML
\* source or the mock generator, has a non-empty title, a non-empty company,
\* a non-empty description of at most 1000 characters and a source tag among
\* jsearch, indeed, mock.
C19_RecordsWellFormed ==
    (ScrapeReturned /\ jresult.kind = "list") =>
        \A k \in 1..Len(jresult.val) :
            LET job == jresult.val[k]
            IN  /\ job.title # <<>>
                /\ job.company # <<>>
                /\ job.description # <<>>
                /\ CharLen(job.description) <= DescLimit
                /\ job.source \in SourceTags

====
